---- MODULE Spec2Model ----
(***************************************************************************)
(* Deferred-registration protocol of the implementors index shard          *)
(* (implementors/core/marker/trait.Sync.js) and of the Registry Sink that  *)
(* consumes it.  The shard emitter is translated from the JavaScript; the  *)
(* Sink (window.register_implementors, its initializer and the Registry    *)
(* query) is not part of the shard file and is modelled from spec.md 4.3.  *)
(*                                                                         *)
(* A JavaScript object (the shard's `implementors`, the Registry) is a set *)
(* of entries [id, impls]; window.pending_implementors is a sequence of    *)
(* mappings, <<>> standing for the undefined slot.                         *)
(***************************************************************************)
EXTENDS Integers, Sequences, FiniteSets, TLC

\* Number of shard emitters that may be loaded in one session.
NumEmitters == 3

VARIABLES
    register_implementors,  \* TRUE iff window.register_implementors exists
    pending_implementors,   \* window.pending_implementors
    registry,               \* the Sink's Registry
    applied,                \* mappings the Sink has applied, in call order
    ran,                    \* emitters that have run, in run order
    initAt,                 \* Len(ran) when the Sink was initialized, -1 before
    initial,                \* mapping passed to the Sink initializer
    queryResult,            \* result of the last Registry query
    pc,                     \* per emitter: what its existence test saw, while
                            \* it is between the test and the write
    stale                   \* emitters that wrote on an outdated test result

vars == <<register_implementors, pending_implementors, registry, applied,
          ran, initAt, initial, queryResult, pc, stale>>

Range(s) == {s[i] : i \in 1..Len(s)}

Emitters == 1..NumEmitters

----------------------------------------------------------------------------
(* JavaScript objects *)

Entry(k, v) == [id |-> k, impls |-> v]

Keys(obj) == {p.id : p \in obj}

\* obj[k] = v : property assignment replaces any previous value of k.
SetProp(obj, k, v) == {p \in obj : p.id # k} \cup {Entry(k, v)}

\* Opaque implementor descriptions of the generated shards.
DescrNames == <<"d1", "d2", "d3", "d4", "d5", "d6">>

\* The assignments `implementors[k] = [...]` a shard performs, in order.
\* Shard 1 is the shard of the source file; the others are further shards
\* of the same generated shape (shard 3 re-registers "spin").
ShardStatements(e) ==
    IF e = 1
    THEN << Entry("spin", <<"Mutex", "RwLock">>),
            Entry("sos_intrusive", <<"RawLink">>) >>
    ELSE << Entry(IF e % 2 = 1 THEN "spin" ELSE "pkgA", <<DescrNames[e]>>) >>

RECURSIVE Build(_, _)
Build(stmts, obj) ==
    IF stmts = <<>> THEN obj
    ELSE Build(Tail(stmts), SetProp(obj, Head(stmts).id, Head(stmts).impls))

\* A shard that hands over after its first assignment (a faulty variant).
implementorsFirstOnly(e) == Build(<<Head(ShardStatements(e))>>, {})

\* var implementors = {}; implementors["spin"] = ...; ...
implementors(e) == Build(ShardStatements(e), {})

----------------------------------------------------------------------------
(* Registry Sink (spec.md 4.3) *)

\* The Sink applies a mapping: each identifier overwrites the prior entry.
RECURSIVE Apply(_, _)
Apply(reg, m) ==
    IF m = {} THEN reg
    ELSE LET p == CHOOSE q \in m : TRUE
         IN Apply(SetProp(reg, p.id, p.impls), m \ {p})

\* Drain: apply buffered mappings in the order they were appended.
RECURSIVE ApplyAll(_, _)
ApplyAll(reg, buf) ==
    IF buf = <<>> THEN reg ELSE ApplyAll(Apply(reg, Head(buf)), Tail(buf))

Absent == [tag |-> "absent", impls |-> <<>>]

\* A lookup that reports a missing identifier as an empty hit.
LookupEmptyHit(reg, k) ==
    IF k \in Keys(reg)
    THEN [tag |-> "found", impls |-> (CHOOSE p \in reg : p.id = k).impls]
    ELSE [tag |-> "found", impls |-> <<>>]

\* Query by identifier: the fragment, or the distinguished value Absent.
Lookup(reg, k) ==
    IF k \in Keys(reg)
    THEN [tag |-> "found", impls |-> (CHOOSE p \in reg : p.id = k).impls]
    ELSE Absent

\* window.register_implementors(m) once the Sink exists.
SinkCall(m) ==
    /\ registry' = Apply(registry, m)
    /\ applied' = Append(applied, m)

\* Mappings hosting code may pass to the initializer ({} = none passed).
InitialMappings ==
    { {}, {Entry("pkgB", <<"i1">>)}, {Entry("spin", <<"i2">>)} }

InitialLog(init) == IF init = {} THEN <<>> ELSE <<init>>

\* An initializer that leaves the drained buffer in place (a faulty variant).
SinkInitKeepBuffer(init) ==
    /\ ~register_implementors
    /\ register_implementors' = TRUE
    /\ registry' = ApplyAll(Apply(registry, init), pending_implementors)
    /\ applied' = applied \o InitialLog(init) \o pending_implementors
    /\ UNCHANGED pending_implementors
    /\ initAt' = Len(ran)
    /\ initial' = init
    /\ UNCHANGED <<ran, queryResult, pc, stale>>

\* Sink initializer: flip to READY, accept the initial mapping, drain the
\* buffer in order, discard it.
SinkInit(init) ==
    /\ ~register_implementors
    /\ register_implementors' = TRUE
    /\ registry' = ApplyAll(Apply(registry, init), pending_implementors)
    /\ applied' = applied \o InitialLog(init) \o pending_implementors
    /\ pending_implementors' = <<>>
    /\ initAt' = Len(ran)
    /\ initial' = init
    /\ UNCHANGED <<ran, queryResult, pc, stale>>

QueryIds == {"spin", "sos_intrusive", "pkgA", "pkgB", "pkgZ"}

Query(k) ==
    /\ queryResult' = [id |-> k, result |-> Lookup(registry, k)]
    /\ UNCHANGED <<register_implementors, pending_implementors, registry,
                   applied, ran, initAt, initial, pc, stale>>

----------------------------------------------------------------------------
(* Shard emitter (trait.Sync.js) *)

\* A direct route that invokes the entry point twice (a faulty variant).
DirectRouteTwice(m) ==
    /\ registry' = Apply(registry, m)
    /\ applied' = applied \o <<m, m>>
    /\ UNCHANGED pending_implementors

\* window.register_implementors(implementors);
DirectRoute(m) ==
    /\ SinkCall(m)
    /\ UNCHANGED pending_implementors

\* window.pending_implementors.push(implementors) (a faulty variant).
BufferRouteAppend(m) ==
    /\ pending_implementors' = Append(pending_implementors, m)
    /\ UNCHANGED <<registry, applied>>

\* window.pending_implementors = implementors;
BufferRoute(m) ==
    /\ pending_implementors' = <<m>>
    /\ UNCHANGED <<registry, applied>>

\* Faulty dispatchers: one that also writes the slot when the Sink exists,
\* one that never tests for the Sink, one that keeps the first buffered
\* mapping instead of the last.
DispatchAlsoBuffers(m) ==
    IF register_implementors
    THEN SinkCall(m) /\ pending_implementors' = <<m>>
    ELSE BufferRoute(m)

DispatchNoCheck(m) == BufferRoute(m)

DispatchDropsSecond(m) ==
    IF register_implementors THEN DirectRoute(m)
    ELSE IF pending_implementors = <<>> THEN BufferRoute(m)
    ELSE UNCHANGED <<pending_implementors, registry, applied>>

\* if (window.register_implementors) {...} else {...}
Dispatch(m) ==
    IF register_implementors THEN DirectRoute(m) ELSE BufferRoute(m)

\* A shard that installs the entry point itself (a faulty variant).
EmitterInstallsSink(e) ==
    /\ e \notin Range(ran)
    /\ pc[e] = "idle"
    /\ Dispatch(implementors(e))
    /\ ran' = Append(ran, e)
    /\ register_implementors' = TRUE
    /\ UNCHANGED <<initAt, initial, queryResult, pc, stale>>

\* One run of the shard's IIFE; each shard is loaded at most once.
Emitter(e) ==
    /\ e \notin Range(ran)
    /\ pc[e] = "idle"
    /\ Dispatch(implementors(e))
    /\ ran' = Append(ran, e)
    /\ UNCHANGED <<register_implementors, initAt, initial, queryResult,
                   pc, stale>>

\* Non-sequential execution (spec.md 4.2, edge case): the existence test of
\* line 4 and the call or assignment of lines 5/7 as two steps, between
\* which the Sink initializer may run.
EmitterCheck(e) ==
    /\ e \notin Range(ran)
    /\ pc[e] = "idle"
    /\ pc' = [pc EXCEPT ![e] =
                IF register_implementors THEN "sawPresent" ELSE "sawAbsent"]
    /\ UNCHANGED <<register_implementors, pending_implementors, registry,
                   applied, ran, initAt, initial, queryResult, stale>>

EmitterWrite(e) ==
    /\ pc[e] \in {"sawPresent", "sawAbsent"}
    /\ IF pc[e] = "sawPresent"
       THEN DirectRoute(implementors(e))
       ELSE BufferRoute(implementors(e))
    /\ stale' = IF pc[e] = "sawAbsent" /\ register_implementors
                THEN stale \cup {e} ELSE stale
    /\ pc' = [pc EXCEPT ![e] = "idle"]
    /\ ran' = Append(ran, e)
    /\ UNCHANGED <<register_implementors, initAt, initial, queryResult>>

----------------------------------------------------------------------------
Init ==
    /\ register_implementors = FALSE
    /\ pending_implementors = <<>>
    /\ registry = {}
    /\ applied = <<>>
    /\ ran = <<>>
    /\ initAt = -1
    /\ initial = {}
    /\ queryResult = [id |-> "", result |-> Absent]
    /\ pc = [e \in Emitters |-> "idle"]
    /\ stale = {}

Next ==
    \/ \E e \in Emitters : Emitter(e)
    \/ \E init \in InitialMappings : SinkInit(init)
    \/ \E k \in QueryIds : Query(k)

Spec == Init /\ [][Next]_vars

\* The same system when emitter runs need not be atomic.
NextRace ==
    \/ Next
    \/ \E e \in Emitters : EmitterCheck(e)
    \/ \E e \in Emitters : EmitterWrite(e)

SpecRace == Init /\ [][NextRace]_vars

----------------------------------------------------------------------------
(* Helpers for the properties *)

Last(s) == s[Len(s)]

\* Number of times the Sink has applied mapping m.
Count(m, log) == Cardinality({i \in 1..Len(log) : log[i] = m})

DistinctIds(S) ==
    \A e1, e2 \in S : e1 # e2 => Keys(implementors(e1)) \cap Keys(implementors(e2)) = {}

UnionOf(S) == UNION {implementors(e) : e \in S}

KeysOfLog(log) == UNION {Keys(log[i]) : i \in 1..Len(log)}

\* The value the last mapping of log that carries k gives to k.
LastWrite(log, k) ==
    LET I == {i \in 1..Len(log) : k \in Keys(log[i])}
    IN IF I = {} THEN Absent
       ELSE LET i == CHOOSE x \in I : \A y \in I : y <= x
            IN [tag |-> "found",
                impls |-> (CHOOSE p \in log[i] : p.id = k).impls]

EmitterRan == ran' # ran

----------------------------------------------------------------------------
\* C1: whenever the Sink is initialized and the emitters that have run carry
\* pairwise distinct identifiers (distinct from the initial mapping's too),
\* the Registry is exactly the union of their fragments (and the initial
\* mapping): nothing missing, no extra key, whatever the order was.
C1_RegistryHoldsAllFragments ==
    (/\ register_implementors
     /\ DistinctIds(Range(ran))
     /\ Keys(initial) \cap Keys(UnionOf(Range(ran))) = {})
    => registry = UnionOf(Range(ran)) \cup initial

\* C2: an emitter run with the Sink entry point absent appends its mapping
\* to the Pending Buffer, leaving what was buffered in place.
C2_BufferAppends ==
    [][(EmitterRan /\ ~register_implementors)
       => pending_implementors' =
            Append(pending_implementors, implementors(Last(ran')))]_vars

\* C3: once the Sink is initialized, any two emitters that ran before the
\* initialization have both been applied, in the order they ran.
C3_DrainInArrivalOrder ==
    register_implementors =>
      \A i, j \in 1..initAt : i < j =>
        \E a, b \in 1..Len(applied) :
            /\ a < b
            /\ applied[a] = implementors(ran[i])
            /\ applied[b] = implementors(ran[j])

\* C4: a fragment handed to registration is never applied twice, and once
\* the Sink is initialized it has been applied exactly once.
C4_ExactlyOnce ==
    \A e \in Range(ran) :
        /\ Count(implementors(e), applied) <= 1
        /\ register_implementors => Count(implementors(e), applied) = 1

----------------------------------------------------------------------------
\* C5: an emitter run with the Sink entry point present calls it exactly
\* once with its mapping, the Registry then holds that mapping's entries,
\* and the Pending Buffer is left as it was.
C5_DirectWhenReady ==
    [][(EmitterRan /\ register_implementors)
       => /\ applied' = Append(applied, implementors(Last(ran')))
          /\ implementors(Last(ran')) \subseteq registry'
          /\ pending_implementors' = pending_implementors]_vars

\* An emitter has run after the Sink was initialized and its mapping is in
\* the Registry.
C5_Witness ==
    /\ register_implementors
    /\ Len(ran) > initAt
    /\ Last(applied) = implementors(Last(ran))
    /\ implementors(Last(ran)) \subseteq registry

\* C6: the Registry has at most one entry per identifier; the entry of an
\* identifier is the one of the last mapping applied that carries it (no
\* merge); and when two emitters carrying the same identifier have run, the
\* Registry never holds the earlier one's fragment for it.
C6_LastWriteWins ==
    /\ \A p, q \in registry : p.id = q.id => p = q
    /\ \A k \in QueryIds : Lookup(registry, k) = LastWrite(applied, k)
    /\ \A i, j \in 1..Len(ran) :
         (i < j /\ register_implementors) =>
           \A p \in implementors(ran[i]) :
             p.id \in Keys(implementors(ran[j])) => p \notin registry

\* "spin" was applied from one emitter, then re-registered by a later one
\* whose fragment is the one the Registry holds.
C6_Witness ==
    \E a, b \in 1..Len(applied) :
        /\ a < b
        /\ applied[a] = implementors(1)
        /\ applied[b] = implementors(3)
        /\ Lookup(registry, "spin").impls = <<DescrNames[3]>>

\* C7: from the initialization on, the entry point stays present and the
\* Pending Buffer stays empty.
C7_ReadyForever ==
    [][register_implementors
       => (register_implementors' /\ pending_implementors' = <<>>)]_vars

\* The Sink drained a buffered fragment and an emitter ran afterwards; the
\* buffer is empty.
C7_Witness ==
    /\ register_implementors
    /\ initAt >= 1
    /\ Len(ran) > initAt
    /\ pending_implementors = <<>>

\* C8: an emitter that has not run can always run, and its run is one step
\* that either calls the Sink or writes the buffer, never both or neither.
C8_OneRouteAlways ==
    /\ [](\A e \in Emitters \ Range(ran) : ENABLED Emitter(e))
    /\ [][EmitterRan
          => /\ Len(ran') = Len(ran) + 1
             /\ (applied' # applied) # (pending_implementors' # pending_implementors)
             /\ (applied' # applied) = register_implementors]_vars

\* Emitters have run in all three situations: Sink absent without buffer,
\* Sink absent with a buffer, Sink present.
C8_Witness ==
    /\ initAt = 2
    /\ Len(ran) = 3
    /\ Len(applied) = 2

\* C9: the initializer makes the entry point present, applies the initial
\* mapping (when one is passed) and then the buffered mappings in order;
\* afterwards the Registry has the identifiers of the initial mapping and of
\* every buffered mapping, and the Pending Buffer is empty.
C9_InitDrains ==
    [][(~register_implementors /\ register_implementors')
       => /\ applied' = applied \o InitialLog(initial') \o pending_implementors
          /\ Keys(initial') \cup KeysOfLog(pending_implementors)
                \subseteq Keys(registry')
          /\ pending_implementors # <<>>
                => Last(pending_implementors) \subseteq registry'
          /\ pending_implementors' = <<>>
          /\ initAt' = Len(ran)]_vars

\* The Sink has just been initialized with an initial mapping and a
\* buffered fragment: both were applied, in that order.
C9_Witness ==
    /\ register_implementors
    /\ initial # {}
    /\ initAt >= 1
    /\ Len(ran) = initAt
    /\ applied = <<initial, implementors(Last(ran))>>

\* C10: a query for an identifier that no applied mapping carries answers
\* Absent, and a query changes nothing but its own result.
C10_QueryAbsent ==
    /\ [](\A k \in QueryIds :
            k \notin KeysOfLog(applied) => Lookup(registry, k) = Absent)
    /\ [][queryResult' # queryResult
          => /\ queryResult'.id \notin KeysOfLog(applied)
                    => queryResult'.result = Absent
             /\ UNCHANGED <<register_implementors, pending_implementors,
                            registry, applied, ran, initAt, initial,
                            pc, stale>>]_vars

\* "pkgA" was queried and reported absent although an emitter carrying it
\* has run: its fragment is still buffered.
C10_Witness ==
    /\ queryResult = [id |-> "pkgA", result |-> Absent]
    /\ 2 \in Range(ran)
    /\ ~register_implementors

----------------------------------------------------------------------------
\* Emitter e's fragment sits in the Pending Buffer although the Sink has
\* been initialized (and has drained), and the Sink has never applied it.
LostInBuffer(e) ==
    /\ register_implementors
    /\ e \in Range(ran)
    /\ implementors(e) \in Range(pending_implementors)
    /\ Count(implementors(e), applied) = 0

\* C11: with the existence test and the write as separate steps, a fragment
\* is stranded in the Pending Buffer after the drain only by an emitter that
\* wrote on an outdated test result, and it then never reaches the Sink;
\* as long as no emitter does so (every run and the initialization atomic)
\* the buffer is empty once the Sink is initialized.
C11_LossOnlyByStaleCheck ==
    /\ [](\A e \in Emitters : LostInBuffer(e) => e \in stale)
    /\ []((register_implementors /\ stale = {}) => pending_implementors = <<>>)
    /\ [](\A e \in stale : Count(implementors(e), applied) = 0)

\* The Sink drained, then an emitter that had tested before the
\* initialization wrote its fragment into the buffer: it is lost.
C11_Witness ==
    \E e \in stale : LostInBuffer(e) /\ initAt < Len(ran)

----------------------------------------------------------------------------
\* C12: after an emitter run with the Sink entry point absent the pending
\* slot holds exactly that emitter's mapping, whatever it held before; the
\* slot never holds more than one mapping.
C12_SlotHoldsLastMapping ==
    /\ [](Len(pending_implementors) <= 1)
    /\ [][(EmitterRan /\ ~register_implementors)
          => pending_implementors' = <<implementors(Last(ran'))>>]_vars

\* Two emitters have run before the Sink; the slot holds the second one's
\* mapping only.
C12_Witness ==
    /\ ~register_implementors
    /\ Len(ran) >= 2
    /\ pending_implementors = <<implementors(Last(ran))>>

\* The identifiers a shard assigns.
ShardIds(e) == {ShardStatements(e)[i].id : i \in 1..Len(ShardStatements(e))}

\* The entries a shard assigns.
ShardEntries(e) == Range(ShardStatements(e))

\* C13: a shard's identifiers become visible together: when the Registry
\* or the pending slot holds an entry assigned by a shard, it has all the
\* identifiers of that shard, and every emitter run makes all of its
\* identifiers visible in the Registry or in the slot in that one step.
C13_WholeMappingAtOnce ==
    /\ [](\A e \in Emitters :
            /\ ShardEntries(e) \cap registry # {}
                    => ShardIds(e) \subseteq Keys(registry)
            /\ \A i \in 1..Len(pending_implementors) :
                 ShardEntries(e) \cap pending_implementors[i] # {}
                    => ShardIds(e) \subseteq Keys(pending_implementors[i]))
    /\ [][EmitterRan
          => \/ ShardIds(Last(ran')) \subseteq Keys(registry')
             \/ /\ pending_implementors' # <<>>
                /\ ShardIds(Last(ran')) \subseteq Keys(Last(pending_implementors'))]_vars

\* The shard of the source file has been applied: "spin" and
\* "sos_intrusive" are both in the Registry.
C13_Witness ==
    /\ register_implementors
    /\ 1 \in Range(ran)
    /\ ShardEntries(1) \subseteq registry

\* C14: an emitter run leaves the Sink entry point as it was, and with the
\* entry point absent it leaves the Registry untouched; the entry point
\* appears only in a step of the Sink initializer.
C14_EmitterKeepsState ==
    /\ [][EmitterRan
          => /\ register_implementors' = register_implementors
             /\ ~register_implementors
                    => (registry' = registry /\ applied' = applied)]_vars
    /\ [][register_implementors' # register_implementors
          => /\ ~EmitterRan
             /\ initAt = -1
             /\ initAt' = Len(ran)]_vars

\* Emitters have run in UNINITIALIZED: the entry point is still absent
\* and the Registry is empty.
C14_Witness ==
    /\ ~register_implementors
    /\ Len(ran) >= 1
    /\ initAt = -1
    /\ registry = {}
    /\ applied = <<>>

====
